---- MODULE Spec2Model ----
(***************************************************************************)
(* Dental receptionist webhook backend: the three webhook integrations     *)
(* (routes.js for Retell keyed on "event", its successor keyed on "name",  *)
(* and the Vapi batch webhook), the two tool handlers they share, and the  *)
(* Airtable store client.                                                  *)
(*                                                                         *)
(* A JavaScript string is modelled as a sequence of tokens.  Strings the   *)
(* code inspects character by character (doctor names, time labels) are    *)
(* sequences of one-character tokens; literal template fragments and       *)
(* strings only tested for truthiness or equality (dates, patient names)   *)
(* are single tokens.  The empty sequence is the empty string, and also    *)
(* stands for an absent (undefined) argument: both are falsy in the code.  *)
(***************************************************************************)
EXTENDS Integers, Sequences, FiniteSets, TLC

----------------------------------------------------------------------------
(* Bounds of the model *)

\* concurrent webhook requests
MaxReq == 2
\* tool calls in one Vapi batch
MaxBatch == 2
\* appointments already in the store when the server starts (sequential runs)
MaxInit == 2

----------------------------------------------------------------------------
(* String primitives *)

Upper == <<"A","B","C","D","E","F","G","H","I","J","K","L","M",
           "N","O","P","Q","R","S","T","U","V","W","X","Y","Z">>
Lower == <<"a","b","c","d","e","f","g","h","i","j","k","l","m",
           "n","o","p","q","r","s","t","u","v","w","x","y","z">>

toLowerCaseChar(c) ==
  IF \E i \in 1..Len(Upper) : Upper[i] = c
    THEN Lower[CHOOSE i \in 1..Len(Upper) : Upper[i] = c]
    ELSE c

\* String.prototype.toLowerCase
toLowerCase(s) == IF s = <<>> THEN <<>> ELSE [i \in 1..Len(s) |-> toLowerCaseChar(s[i])]

\* String.prototype.includes: t occurs in s as a contiguous substring
includes(s, t) == \E i \in 0..(Len(s) - Len(t)) : SubSeq(s, i + 1, i + Len(t)) = t

\* Array.prototype.includes on an array of strings
arrayIncludes(arr, x) == \E i \in 1..Len(arr) : arr[i] = x

\* String.prototype.replace(pat, rep) with a string pattern: first occurrence only
replace(s, pat, rep) ==
  IF includes(s, pat)
    THEN LET i == CHOOSE k \in 0..(Len(s) - Len(pat)) :
                    /\ SubSeq(s, k + 1, k + Len(pat)) = pat
                    /\ \A j \in 0..(k - 1) : SubSeq(s, j + 1, j + Len(pat)) # pat
         IN  SubSeq(s, 1, i) \o rep \o SubSeq(s, i + Len(pat) + 1, Len(s))
    ELSE s

RECURSIVE join(_, _)
\* Array.prototype.join
join(arr, sep) ==
  IF arr = <<>> THEN <<>>
  ELSE IF Len(arr) = 1 THEN arr[1]
  ELSE arr[1] \o sep \o join(Tail(arr), sep)

\* variant: a slice that keeps the whole array
sliceAll(arr, n) == arr

\* Array.prototype.slice(0, n)
slice(arr, n) == SubSeq(arr, 1, IF Len(arr) < n THEN Len(arr) ELSE n)

\* x || dflt for strings
orElse(x, dflt) == IF x = <<>> THEN dflt ELSE x

----------------------------------------------------------------------------
(* Program constants *)

Label(h1, h2, m) == <<h1, h2, ":", "0", "0", " ", m, "M">>

\* the 9 hourly labels of handleCheckAvailability
allTimeSlots ==
  << Label("0","9","A"), Label("1","0","A"), Label("1","1","A"),
     Label("1","2","P"), Label("0","1","P"), Label("0","2","P"),
     Label("0","3","P"), Label("0","4","P"), Label("0","5","P") >>

Confirmed == <<"Confirmed">>
Cancelled == <<"Cancelled">>
NotProvided == <<"Not provided">>

MsgNeedDate == <<"I need a date to check availability. Which date were you thinking?">>
MsgNoRoster == <<"I'm sorry, I could not retrieve our doctor list right now. Please call back in a moment.">>
MsgNeedBooking == <<"I need your name, preferred doctor, date, and time to book an appointment. Could you provide those details?">>
MsgUnknownTool == <<"I apologize, I could not process that request. Please try again.">>
MsgApology == <<"I apologize, there was a technical issue. Let me transfer you to our staff.">>

----------------------------------------------------------------------------
(* Values the environment supplies: roster entries, stored appointments,   *)
(* and tool-call arguments.                                                *)

Sara  == <<"S","a","r","a">>
Sarah == <<"S","a","r","a","h">>
Ahmed == <<"A","h","m","e","d">>
sarah == <<"s","a","r","a","h">>
Zed   == <<"Z","e","d">>

D1 == <<"2026-03-02">>
D2 == <<"2026-03-03">>

T10 == Label("1","0","A")
T11 == Label("1","1","A")
\* a time string that is not one of the 9 labels
T1030 == <<"1","0",":","3","0"," ","A","M">>

Jane == <<"Jane">>
Omar == <<"Omar">>

\* a row of the Doctors table (Available_Days and Available_Hours are read by
\* getDoctors but used by no handler)
Doctor(name, specialty) == [Name |-> name, Specialty |-> specialty]

\* a row of the Appointments table
Appointment(patient, phone, doctor, date, time, status) ==
  [Patient_Name |-> patient, Patient_Phone |-> phone, Doctor |-> doctor,
   Date |-> date, Time |-> time, Status |-> status]

Rosters ==
  { <<>>,
    << Doctor(Ahmed, <<"General Dentistry">>), Doctor(Sara, <<"Cosmetic Dentistry">>) >>,
    << Doctor(Sara, <<"Cosmetic Dentistry">>), Doctor(Sarah, <<>>) >> }

----------------------------------------------------------------------------
(* airtable.js: the store client.  Each function is one remote call that   *)
(* either fails (the promise rejects) or returns the value computed here   *)
(* from the table's contents at the moment the store serves it.  The       *)
(* tables of the model hold fewer rows than one Airtable page, so eachPage *)
(* delivers one page.                                                      *)

\* getDoctors: the Doctors table mapped to doctor objects
getDoctors(table) ==
  [i \in 1..Len(table) |->
     [name |-> orElse(table[i].Name, <<"Unknown">>),
      specialty |-> orElse(table[i].Specialty, <<"General Dentistry">>)]]

RECURSIVE selectByDate(_, _)
\* the rows filterByFormula IS_SAME({Date}, DATETIME_PARSE(date), 'day') keeps
selectByDate(table, date) ==
  IF table = <<>> THEN <<>>
  ELSE IF Head(table).Date = date
    THEN <<Head(table)>> \o selectByDate(Tail(table), date)
    ELSE selectByDate(Tail(table), date)

\* checkAppointments: the rows of the date mapped to appointment objects
checkAppointments(table, date) ==
  LET rows == selectByDate(table, date)
  IN  [i \in 1..Len(rows) |->
         [patientName |-> rows[i].Patient_Name,
          doctor |-> rows[i].Doctor,
          date |-> rows[i].Date,
          time |-> rows[i].Time,
          status |-> orElse(rows[i].Status, Confirmed)]]

\* the row bookAppointment sends to base('Appointments').create
NewRecord(d) ==
  Appointment(d.patientName, orElse(d.patientPhone, NotProvided),
              d.doctor, d.date, d.time, Confirmed)

\* variant: a create that refuses a second live row of one (doctor, date, time)
InsertUnique(table, row) ==
  IF \E k \in 1..Len(table) :
       /\ table[k].Doctor = row.Doctor /\ table[k].Date = row.Date
       /\ table[k].Time = row.Time /\ table[k].Status # <<"Cancelled">>
    THEN table
    ELSE Append(table, row)

\* variant: a create that takes over a cancelled row of the same doctor,
\* date and time when there is one
InsertOverCancelled(table, row) ==
  LET reusable == {k \in 1..Len(table) :
                     /\ table[k].Doctor = row.Doctor /\ table[k].Date = row.Date
                     /\ table[k].Time = row.Time /\ table[k].Status = <<"Cancelled">>}
  IN  IF reusable = {} THEN Append(table, row)
      ELSE [table EXCEPT ![CHOOSE k \in reusable : TRUE] = row]

\* base('Appointments').create: an unconditional insert
Insert(table, row) == Append(table, row)

----------------------------------------------------------------------------
(* routes.js: response formatters *)

\* new Date(date + 'T00:00:00').toLocaleDateString('en-US',
\*   { weekday: 'long', month: 'long', day: 'numeric' }), on the dates of the model
formattedDate(date) ==
  IF date = D1 THEN <<"Monday, March 2">>
  ELSE IF date = D2 THEN <<"Tuesday, March 3">>
  ELSE <<"Invalid Date">>

\* how a slot label is spoken: routes.js speaks it as stored; the Vapi
\* webhook strips the first ':00' (its two further replace calls put back
\* what they remove)
spokenSlot(integ, s) ==
  IF integ = "vapi"
    THEN replace(replace(replace(s, <<":","0","0">>, <<>>),
                         <<" ","A","M">>, <<" ","A","M">>),
                 <<" ","P","M">>, <<" ","P","M">>)
    ELSE s

formatAvailabilityFast(integ, availabilityData, date) ==
  LET hasFree(d) == Len(d.freeSlots) > 0
      available == SelectSeq(availabilityData, hasFree)
      parts == [i \in 1..Len(available) |->
                  LET slots == slice(available[i].freeSlots, 5)
                      spoken == [k \in 1..Len(slots) |-> spokenSlot(integ, slots[k])]
                  IN  available[i].doctor \o <<" at ">> \o join(spoken, <<", ">>)]
  IN  IF Len(available) = 0
        THEN <<"I'm sorry, there are no available slots on ">> \o formattedDate(date)
               \o <<". Would you like to try a different date?">>
        ELSE <<"On ">> \o formattedDate(date) \o <<" we have: ">>
               \o join(parts, <<". ">>) \o <<". Which time works best for you?">>

formatConfirmationFast(patientName, doctor, date, time) ==
  <<"Your appointment is confirmed! ">> \o patientName \o <<", you're booked with ">>
    \o doctor \o <<" on ">> \o formattedDate(date) \o <<" at ">> \o time
    \o <<". We look forward to seeing you!">>

MsgSlotTaken(time, doctor, date) ==
  <<"I'm sorry, the ">> \o time \o <<" slot with ">> \o doctor \o <<" on ">> \o date
    \o <<" was just taken. Would you like to choose a different time?">>

MsgDoctorNotFound(doctor, allDoctors) ==
  <<"I'm sorry, I couldn't find a doctor named ">> \o doctor
    \o <<". Our available doctors are: ">>
    \o join([i \in 1..Len(allDoctors) |-> allDoctors[i].name], <<", ">>)
    \o <<". Would you like to book with one of them?">>

----------------------------------------------------------------------------
(* routes.js: the computations of the two tool handlers *)

\* variant: a doctor filter that respects letter case
relevantDoctorsCaseSensitive(allDoctors, doctor) ==
  LET matches(d) == includes(d.name, doctor)
  IN  IF doctor # <<>> THEN SelectSeq(allDoctors, matches) ELSE allDoctors

\* allDoctors.filter(d => d.name.toLowerCase().includes(doctor.toLowerCase()))
\* when a doctor is given, allDoctors otherwise
relevantDoctors(allDoctors, doctor) ==
  LET matches(d) == includes(toLowerCase(d.name), toLowerCase(doctor))
  IN  IF doctor # <<>> THEN SelectSeq(allDoctors, matches) ELSE allDoctors

\* variant: booked times that skip cancelled appointments
bookedTimesLive(existingAppointments, doc) ==
  LET ofDoctor(appt) == /\ includes(toLowerCase(appt.doctor), toLowerCase(doc.name))
                        /\ appt.status # <<"Cancelled">>
      mine == SelectSeq(existingAppointments, ofDoctor)
  IN  [i \in 1..Len(mine) |-> mine[i].time]

\* the booked time strings of one roster doctor
bookedTimes(existingAppointments, doc) ==
  LET ofDoctor(appt) == includes(toLowerCase(appt.doctor), toLowerCase(doc.name))
      mine == SelectSeq(existingAppointments, ofDoctor)
  IN  [i \in 1..Len(mine) |-> mine[i].time]

freeSlots(existingAppointments, doc) ==
  LET booked == bookedTimes(existingAppointments, doc)
      isFree(slot) == ~arrayIncludes(booked, slot)
  IN  SelectSeq(allTimeSlots, isFree)

\* the availabilityData array built by the for loop of handleCheckAvailability
buildAvailability(relevant, existingAppointments) ==
  [i \in 1..Len(relevant) |->
     [doctor |-> relevant[i].name,
      specialty |-> relevant[i].specialty,
      freeSlots |-> freeSlots(existingAppointments, relevant[i])]]

\* variant: a guard that also counts cancelled appointments
isSlotTakenAnyStatus(existingAppointments, doctor, time) ==
  \E i \in 1..Len(existingAppointments) :
    /\ includes(toLowerCase(existingAppointments[i].doctor), toLowerCase(doctor))
    /\ existingAppointments[i].time = time

\* variant: a guard that compares the doctor strings for equality
isSlotTakenExact(existingAppointments, doctor, time) ==
  \E i \in 1..Len(existingAppointments) :
    /\ existingAppointments[i].doctor = doctor
    /\ existingAppointments[i].time = time
    /\ existingAppointments[i].status # Cancelled

\* variant: a guard that looks at the time and status only
isSlotTakenAnyDoctor(existingAppointments, doctor, time) ==
  \E i \in 1..Len(existingAppointments) :
    /\ existingAppointments[i].time = time
    /\ existingAppointments[i].status # Cancelled

\* variant: a guard for which either doctor string may contain the other
isSlotTakenEitherWay(existingAppointments, doctor, time) ==
  \E i \in 1..Len(existingAppointments) :
    /\ \/ includes(toLowerCase(existingAppointments[i].doctor), toLowerCase(doctor))
       \/ includes(toLowerCase(doctor), toLowerCase(existingAppointments[i].doctor))
    /\ existingAppointments[i].time = time
    /\ existingAppointments[i].status # Cancelled

\* the conflict guard of handleBookAppointment
isSlotTaken(existingAppointments, doctor, time) ==
  \E i \in 1..Len(existingAppointments) :
    /\ includes(toLowerCase(existingAppointments[i].doctor), toLowerCase(doctor))
    /\ existingAppointments[i].time = time
    /\ existingAppointments[i].status # Cancelled

----------------------------------------------------------------------------
(* State *)

VARIABLES
  store,   \* the Appointments table: a sequence of rows, in insertion order
  roster,  \* the Doctors table
  inbox,   \* inbox[r]: the body of webhook request r
  task     \* task[r]: the handler activation of request r (position, locals,
           \* results so far, response sent, and the store calls it has made)

vars == <<store, roster, inbox, task>>

Slots == 1..MaxReq

\* the arguments object of a tool call; <<>> is an absent field
Args(patient_name, patient_phone, doctor, date, time) ==
  [patient_name |-> patient_name, patient_phone |-> patient_phone,
   doctor |-> doctor, date |-> date, time |-> time]

NoArgs == Args(<<>>, <<>>, <<>>, <<>>, <<>>)

\* an entry of a Vapi toolCallList.  json tells what function.arguments parses
\* to: "object" (the arguments object), "invalid" (JSON.parse throws) or
\* "null" (the JSON text null)
ToolCall(id, hasFunction, name, json, arguments) ==
  [id |-> id, hasFunction |-> hasFunction, name |-> name, json |-> json,
   arguments |-> arguments]

\* req.body of a Retell request: "" is an absent event or name
RetellBody(integ, event, name, tool_call_id, arguments) ==
  [integ |-> integ, event |-> event, name |-> name, tool_call_id |-> tool_call_id,
   arguments |-> arguments, hasMessage |-> FALSE, type |-> "", toolCallList |-> <<>>]

\* req.body of a Vapi request
VapiBody(hasMessage, type, toolCallList) ==
  [integ |-> "vapi", event |-> "", name |-> "", tool_call_id |-> "",
   arguments |-> NoArgs, hasMessage |-> hasMessage, type |-> type,
   toolCallList |-> toolCallList]

NoBody == RetellBody("none", "", "", "", NoArgs)

NoResponse ==
  [status |-> "none", kind |-> "none", tool_call_id |-> "", content |-> <<>>,
   results |-> <<>>]

\* res.json({ tool_call_id, content })
ToolResponse(id, content) ==
  [status |-> "200", kind |-> "tool", tool_call_id |-> id, content |-> content,
   results |-> <<>>]

\* res.json({ results })
BatchResponse(results) ==
  [status |-> "200", kind |-> "batch", tool_call_id |-> "", content |-> <<>>,
   results |-> results]

\* res.json({ received: true })
Ack ==
  [status |-> "200", kind |-> "received", tool_call_id |-> "", content |-> <<>>,
   results |-> <<>>]

\* res.status(400).json({ error })
BadRequest ==
  [status |-> "400", kind |-> "error", tool_call_id |-> "", content |-> <<>>,
   results |-> <<>>]

IdleTask ==
  [pc |-> "idle", idx |-> 0, allDoctors |-> <<>>, relevant |-> <<>>,
   existingAppointments |-> <<>>, availabilityData |-> <<>>,
   results |-> <<>>, response |-> NoResponse, trace |-> <<>>]

\* the tool call the handler of body b is working on: the single call of a
\* Retell request, entry i of a Vapi batch
CurrentCall(b, i) ==
  IF b.integ = "vapi"
    THEN LET tc == b.toolCallList[i]
         IN  [id |-> tc.id, name |-> tc.name, json |-> tc.json,
              args |-> IF tc.json = "object" THEN tc.arguments ELSE NoArgs]
    ELSE [id |-> b.tool_call_id, name |-> b.name, json |-> "object",
          args |-> b.arguments]

\* one store call made for tool call i: the operation, its argument, whether
\* it succeeded and what it returned
Call(i, op, arg, ok, value) ==
  [idx |-> i, op |-> op, arg |-> arg, ok |-> ok, value |-> value]

Logged(t, op, arg, ok, value) ==
  [t EXCEPT !.trace = Append(@, Call(t.idx, op, arg, ok, value))]

----------------------------------------------------------------------------
(* The handlers.  JavaScript runs a handler without interruption from one  *)
(* await to the next, so each operator below is the code between two       *)
(* awaits: it takes the activation t of a request with body b and returns  *)
(* the activation at the next await (pc names the pending store call), at  *)
(* the response (pc = "done"), or at an exception that leaves the route    *)
(* handler (pc = "rejected": the promise of the async route handler        *)
(* rejects and the route sends nothing).                                   *)

RECURSIVE Run(_, _, _)

\* variant: a batch that is given up at the first tool call that fails
FinishOrGiveUp(b, t, i, result) ==
  LET id == CurrentCall(b, i).id
      t1 == [t EXCEPT !.results = Append(@, [toolCallId |-> id, result |-> result])]
  IN  IF b.integ = "vapi" /\ result # MsgApology
        THEN Run(b, t1, i + 1)
      ELSE IF b.integ = "vapi"
        THEN [t1 EXCEPT !.pc = "done", !.response = BatchResponse(t1.results)]
      ELSE [t1 EXCEPT !.pc = "done", !.response = ToolResponse(id, result)]

\* variant: a batch whose results are collected newest first
FinishNewestFirst(b, t, i, result) ==
  LET id == CurrentCall(b, i).id
      t1 == [t EXCEPT !.results = <<[toolCallId |-> id, result |-> result]>> \o @]
  IN  IF b.integ = "vapi"
        THEN Run(b, t1, i + 1)
        ELSE [t1 EXCEPT !.pc = "done", !.response = ToolResponse(id, result)]

\* the tool call i ends with the string result: Retell sends it as the
\* response; Vapi pushes it on results and goes on with the next entry
Finish(b, t, i, result) ==
  LET id == CurrentCall(b, i).id
      t1 == [t EXCEPT !.results = Append(@, [toolCallId |-> id, result |-> result])]
  IN  IF b.integ = "vapi"
        THEN Run(b, t1, i + 1)
        ELSE [t1 EXCEPT !.pc = "done", !.response = ToolResponse(id, result)]

\* variant: a booking that reuses the appointment list an earlier
\* check_availability of the same request fetched for the date
RunReusing(b, t, i) ==
  IF b.integ = "vapi" /\ i > Len(b.toolCallList)
    THEN [t EXCEPT !.pc = "done", !.response = BatchResponse(t.results)]
  ELSE IF b.integ = "vapi" /\ ~b.toolCallList[i].hasFunction
    THEN [t EXCEPT !.pc = "rejected", !.idx = i]
  ELSE
    LET c == CurrentCall(b, i)
        a == c.args
        cached == \E k \in 1..Len(t.trace) :
                    t.trace[k].op = "checkAppointments" /\ t.trace[k].ok
                      /\ t.trace[k].arg = a.date
    IN  IF c.name = "check_availability"
          THEN IF c.json = "null" THEN Finish(b, t, i, MsgApology)
               ELSE IF a.date = <<>> THEN Finish(b, t, i, MsgNeedDate)
               ELSE [t EXCEPT !.pc = "getDoctors", !.idx = i]
        ELSE IF c.name = "book_appointment"
          THEN IF c.json = "null" THEN Finish(b, t, i, MsgApology)
               ELSE IF a.patient_name = <<>> \/ a.doctor = <<>> \/ a.date = <<>> \/ a.time = <<>>
                 THEN Finish(b, t, i, MsgNeedBooking)
               ELSE IF cached /\ isSlotTaken(t.existingAppointments, a.doctor, a.time)
                 THEN Finish(b, t, i, MsgSlotTaken(a.time, a.doctor, a.date))
               ELSE IF cached THEN [t EXCEPT !.pc = "create", !.idx = i]
               ELSE [t EXCEPT !.pc = "guardRead", !.idx = i]
        ELSE Finish(b, t, i, MsgUnknownTool)

\* variant: a route for which an unknown tool name is fatal
RunFatal(b, t, i) ==
  IF b.integ = "vapi" /\ i > Len(b.toolCallList)
    THEN [t EXCEPT !.pc = "done", !.response = BatchResponse(t.results)]
  ELSE IF b.integ = "vapi" /\ ~b.toolCallList[i].hasFunction
    THEN [t EXCEPT !.pc = "rejected", !.idx = i]
  ELSE
    LET c == CurrentCall(b, i)
        a == c.args
    IN  IF c.name = "check_availability"
          THEN IF c.json = "null" THEN Finish(b, t, i, MsgApology)
               ELSE IF a.date = <<>> THEN Finish(b, t, i, MsgNeedDate)
               ELSE [t EXCEPT !.pc = "getDoctors", !.idx = i]
        ELSE IF c.name = "book_appointment"
          THEN IF c.json = "null" THEN Finish(b, t, i, MsgApology)
               ELSE IF a.patient_name = <<>> \/ a.doctor = <<>> \/ a.date = <<>> \/ a.time = <<>>
                 THEN Finish(b, t, i, MsgNeedBooking)
               ELSE [t EXCEPT !.pc = "guardRead", !.idx = i]
        ELSE [t EXCEPT !.pc = "rejected", !.idx = i]

\* from the start of tool call i (the try block of the route) to the first
\* await of its handler
Run(b, t, i) ==
  IF b.integ = "vapi" /\ i > Len(b.toolCallList)
    THEN [t EXCEPT !.pc = "done", !.response = BatchResponse(t.results)]
  ELSE IF b.integ = "vapi" /\ ~b.toolCallList[i].hasFunction
    \* toolCall.function.name, outside the try block
    THEN [t EXCEPT !.pc = "rejected", !.idx = i]
  ELSE
    LET c == CurrentCall(b, i)
        a == c.args
    IN  IF c.name = "check_availability"
          THEN IF c.json = "null" THEN Finish(b, t, i, MsgApology)
               ELSE IF a.date = <<>> THEN Finish(b, t, i, MsgNeedDate)
               ELSE [t EXCEPT !.pc = "getDoctors", !.idx = i]
        ELSE IF c.name = "book_appointment"
          THEN IF c.json = "null" THEN Finish(b, t, i, MsgApology)
               ELSE IF a.patient_name = <<>> \/ a.doctor = <<>> \/ a.date = <<>> \/ a.time = <<>>
                 THEN Finish(b, t, i, MsgNeedBooking)
               ELSE [t EXCEPT !.pc = "guardRead", !.idx = i]
        ELSE Finish(b, t, i, MsgUnknownTool)

\* variant: a handler that reports on the whole roster when the filter
\* matches no doctor
AfterGetDoctorsFallback(b, t, ok, table) ==
  LET a == CurrentCall(b, t.idx).args
      allDoctors == getDoctors(table)
      relevant == relevantDoctors(allDoctors, a.doctor)
      t1 == Logged(t, "getDoctors", <<>>, ok, IF ok THEN allDoctors ELSE <<>>)
  IN  IF ~ok THEN Finish(b, t1, t.idx, MsgApology)
      ELSE IF Len(allDoctors) = 0 THEN Finish(b, t1, t.idx, MsgNoRoster)
      ELSE [t1 EXCEPT !.allDoctors = allDoctors,
                      !.relevant = IF Len(relevant) = 0 THEN allDoctors ELSE relevant,
                      !.pc = "checkAppointments"]

\* variant: a handler without the test for an empty roster
AfterGetDoctorsUntested(b, t, ok, table) ==
  LET a == CurrentCall(b, t.idx).args
      allDoctors == getDoctors(table)
      relevant == relevantDoctors(allDoctors, a.doctor)
      t1 == Logged(t, "getDoctors", <<>>, ok, IF ok THEN allDoctors ELSE <<>>)
  IN  IF ~ok THEN Finish(b, t1, t.idx, MsgApology)
      ELSE IF a.doctor # <<>> /\ Len(relevant) = 0
        THEN Finish(b, t1, t.idx, MsgDoctorNotFound(a.doctor, allDoctors))
      ELSE [t1 EXCEPT !.allDoctors = allDoctors, !.relevant = relevant,
                      !.pc = "checkAppointments"]

\* handleCheckAvailability after await getDoctors()
AfterGetDoctors(b, t, ok, table) ==
  LET a == CurrentCall(b, t.idx).args
      allDoctors == getDoctors(table)
      relevant == relevantDoctors(allDoctors, a.doctor)
      t1 == Logged(t, "getDoctors", <<>>, ok, IF ok THEN allDoctors ELSE <<>>)
  IN  IF ~ok THEN Finish(b, t1, t.idx, MsgApology)
      ELSE IF Len(allDoctors) = 0 THEN Finish(b, t1, t.idx, MsgNoRoster)
      ELSE IF a.doctor # <<>> /\ Len(relevant) = 0
        THEN Finish(b, t1, t.idx, MsgDoctorNotFound(a.doctor, allDoctors))
      ELSE [t1 EXCEPT !.allDoctors = allDoctors, !.relevant = relevant,
                      !.pc = "checkAppointments"]

\* handleCheckAvailability after await checkAppointments(date)
AfterCheckAppointments(b, t, ok, table) ==
  LET a == CurrentCall(b, t.idx).args
      existing == checkAppointments(table, a.date)
      data == buildAvailability(t.relevant, existing)
      t1 == Logged(t, "checkAppointments", a.date, ok, IF ok THEN existing ELSE <<>>)
  IN  IF ~ok THEN Finish(b, t1, t.idx, MsgApology)
      ELSE Finish(b, [t1 EXCEPT !.existingAppointments = existing,
                                !.availabilityData = data],
                  t.idx, formatAvailabilityFast(b.integ, data, a.date))

\* variant: a guard that decides on the list the request first read for the
\* date, when it has read one
AfterGuardReadMemoized(b, t, ok, table) ==
  LET a == CurrentCall(b, t.idx).args
      earlier == {k \in 1..Len(t.trace) :
                    /\ t.trace[k].op = "checkAppointments" /\ t.trace[k].ok
                    /\ t.trace[k].arg = a.date}
      fresh == checkAppointments(table, a.date)
      existing == IF earlier = {} THEN fresh
                  ELSE t.trace[CHOOSE k \in earlier : \A j \in earlier : k <= j].value
      t1 == Logged(t, "checkAppointments", a.date, ok, IF ok THEN fresh ELSE <<>>)
  IN  IF ~ok THEN Finish(b, t1, t.idx, MsgApology)
      ELSE IF isSlotTaken(existing, a.doctor, a.time)
        THEN Finish(b, [t1 EXCEPT !.existingAppointments = existing], t.idx,
                    MsgSlotTaken(a.time, a.doctor, a.date))
      ELSE [t1 EXCEPT !.existingAppointments = existing, !.pc = "create"]

\* variant: a guard that takes a failed read for an empty list and books
AfterGuardReadLenient(b, t, ok, table) ==
  LET a == CurrentCall(b, t.idx).args
      existing == IF ok THEN checkAppointments(table, a.date) ELSE <<>>
      t1 == Logged(t, "checkAppointments", a.date, ok, existing)
  IN  IF isSlotTaken(existing, a.doctor, a.time)
        THEN Finish(b, [t1 EXCEPT !.existingAppointments = existing], t.idx,
                    MsgSlotTaken(a.time, a.doctor, a.date))
      ELSE [t1 EXCEPT !.existingAppointments = existing, !.pc = "create"]

\* handleBookAppointment after await checkAppointments(date)
AfterGuardRead(b, t, ok, table) ==
  LET a == CurrentCall(b, t.idx).args
      existing == checkAppointments(table, a.date)
      t1 == Logged(t, "checkAppointments", a.date, ok, IF ok THEN existing ELSE <<>>)
  IN  IF ~ok THEN Finish(b, t1, t.idx, MsgApology)
      ELSE IF isSlotTaken(existing, a.doctor, a.time)
        THEN Finish(b, [t1 EXCEPT !.existingAppointments = existing], t.idx,
                    MsgSlotTaken(a.time, a.doctor, a.date))
      ELSE [t1 EXCEPT !.existingAppointments = existing, !.pc = "create"]

\* the details object handleBookAppointment passes to bookAppointment
Details(a) ==
  [patientName |-> a.patient_name,
   patientPhone |-> orElse(a.patient_phone, NotProvided),
   doctor |-> a.doctor, date |-> a.date, time |-> a.time]

\* variant: a handler that confirms whatever bookAppointment did
AfterCreateUnchecked(b, t, ok) ==
  LET a == CurrentCall(b, t.idx).args
      t1 == Logged(t, "create", <<>>, ok, IF ok THEN <<NewRecord(Details(a))>> ELSE <<>>)
  IN  Finish(b, t1, t.idx,
             formatConfirmationFast(a.patient_name, a.doctor, a.date, a.time))

\* handleBookAppointment after await bookAppointment(...)
AfterCreate(b, t, ok) ==
  LET a == CurrentCall(b, t.idx).args
      t1 == Logged(t, "create", <<>>, ok, IF ok THEN <<NewRecord(Details(a))>> ELSE <<>>)
  IN  IF ~ok THEN Finish(b, t1, t.idx, MsgApology)
      ELSE Finish(b, t1, t.idx,
                  formatConfirmationFast(a.patient_name, a.doctor, a.date, a.time))

----------------------------------------------------------------------------
(* The three routes, from the arrival of a request to its first await *)

\* variant: a route that refuses the events it has no handler for
RetellRouteStrict(b) ==
  IF b.event = "" THEN [IdleTask EXCEPT !.pc = "done", !.response = BadRequest]
  ELSE IF b.event = "tool_call_invocation" THEN Run(b, IdleTask, 1)
  ELSE IF b.event \in {"call_started", "call_ended"}
    THEN [IdleTask EXCEPT !.pc = "done", !.response = Ack]
  ELSE [IdleTask EXCEPT !.pc = "done", !.response = BadRequest]

\* routes.js, router.post('/webhook/retell'): dispatch on body.event
RetellRoute(b) ==
  IF b.event = "" THEN [IdleTask EXCEPT !.pc = "done", !.response = BadRequest]
  ELSE IF b.event = "tool_call_invocation" THEN Run(b, IdleTask, 1)
  ELSE [IdleTask EXCEPT !.pc = "done", !.response = Ack]

\* the later router.post('/webhook/retell'): a body with a name is a tool
\* call, everything else is acknowledged
Retell2Route(b) ==
  IF b.name # "" THEN Run(b, IdleTask, 1)
  ELSE [IdleTask EXCEPT !.pc = "done", !.response = Ack]

\* router.post('/webhook/vapi'): dispatch on message.type
VapiRoute(b) ==
  IF ~b.hasMessage THEN [IdleTask EXCEPT !.pc = "done", !.response = BadRequest]
  ELSE IF b.type = "tool-calls" THEN Run(b, IdleTask, 1)
  ELSE [IdleTask EXCEPT !.pc = "done", !.response = Ack]

Route(b) ==
  IF b.integ = "retell" THEN RetellRoute(b)
  ELSE IF b.integ = "retell2" THEN Retell2Route(b)
  ELSE VapiRoute(b)

----------------------------------------------------------------------------
(* Actions *)

\* request r arrives with a body of Bodies and runs to its first await.
\* Requests take the slots in order: the slots are interchangeable.
Post(r, Bodies) ==
  /\ task[r].pc = "idle"
  /\ \A q \in 1..(r - 1) : task[q].pc # "idle"
  /\ \E b \in Bodies :
       /\ inbox' = [inbox EXCEPT ![r] = b]
       /\ task' = [task EXCEPT ![r] = Route(b)]
  /\ UNCHANGED <<store, roster>>

\* the store answers getDoctors() of request r, or the call fails
GetDoctorsReturns(r) ==
  /\ task[r].pc = "getDoctors"
  /\ \E ok \in BOOLEAN :
       task' = [task EXCEPT ![r] = AfterGetDoctors(inbox[r], task[r], ok, roster)]
  /\ UNCHANGED <<store, roster, inbox>>

\* variant: an availability check that places a hold on the 10:00 AM slot of
\* the date it was asked about
CheckAppointmentsReserves(r) ==
  /\ task[r].pc = "checkAppointments"
  /\ \E ok \in BOOLEAN :
       /\ task' = [task EXCEPT ![r] = AfterCheckAppointments(inbox[r], task[r], ok, store)]
       /\ store' = IF ok
                     THEN Append(store, Appointment(<<"hold">>, NotProvided, <<"hold">>,
                                                    CurrentCall(inbox[r], task[r].idx).args.date,
                                                    T10, Confirmed))
                     ELSE store
  /\ UNCHANGED <<roster, inbox>>

\* the store answers checkAppointments(date) of handleCheckAvailability
CheckAppointmentsReturns(r) ==
  /\ task[r].pc = "checkAppointments"
  /\ \E ok \in BOOLEAN :
       task' = [task EXCEPT ![r] = AfterCheckAppointments(inbox[r], task[r], ok, store)]
  /\ UNCHANGED <<store, roster, inbox>>

\* the store answers checkAppointments(date) of handleBookAppointment
GuardReadReturns(r) ==
  /\ task[r].pc = "guardRead"
  /\ \E ok \in BOOLEAN :
       task' = [task EXCEPT ![r] = AfterGuardRead(inbox[r], task[r], ok, store)]
  /\ UNCHANGED <<store, roster, inbox>>

\* the store serves the create of bookAppointment, or the call fails
CreateReturns(r) ==
  /\ task[r].pc = "create"
  /\ \E ok \in BOOLEAN :
       /\ store' = IF ok
                     THEN Insert(store, NewRecord(Details(CurrentCall(inbox[r], task[r].idx).args)))
                     ELSE store
       /\ task' = [task EXCEPT ![r] = AfterCreate(inbox[r], task[r], ok)]
  /\ UNCHANGED <<roster, inbox>>

StoreReturns(r) ==
  \/ GetDoctorsReturns(r)
  \/ CheckAppointmentsReturns(r)
  \/ GuardReadReturns(r)
  \/ CreateReturns(r)

----------------------------------------------------------------------------
(* Inputs *)

RECURSIVE SeqsUpTo(_, _)
\* the sequences over S of length at most n
SeqsUpTo(S, n) ==
  IF n = 0 THEN {<<>>}
  ELSE LET shorter == SeqsUpTo(S, n - 1)
       IN  shorter \cup {Append(q, x) : q \in {p \in shorter : Len(p) = n - 1}, x \in S}

BookArgs(patients, doctors, dates, times) ==
  {Args(p, <<>>, d, dt, tm) : p \in patients, d \in doctors, dt \in dates, tm \in times}

CheckArgs(doctors, dates) ==
  {Args(<<>>, <<>>, d, dt, <<>>) : d \in doctors, dt \in dates}

\* a tool invocation as (name, arguments)
Tool(name, args) == [name |-> name, args |-> args]

\* the bodies the webhook of routes.js receives: the tool invocations of
\* Tools, the events, and the tool invocations of Stray sent without an event
RetellBodies(Tools, Events, Stray) ==
  {RetellBody("retell", "tool_call_invocation", c.name, "rt_1", c.args) : c \in Tools}
    \cup {RetellBody("retell", e, "", "", NoArgs) : e \in Events}
    \cup {RetellBody("retell", "", c.name, "rt_1", c.args) : c \in Stray}

\* the bodies the later Retell webhook receives
Retell2Bodies(Tools, Events) ==
  {RetellBody("retell2", "", c.name, "rt_2", c.args) : c \in Tools}
    \cup {RetellBody("retell2", e, "", "", NoArgs) : e \in Events}

\* the bodies the Vapi webhook receives: batches of at most n of Entries,
\* the message types of Types, and a body without a message
VapiBodies(Entries, n, Types) ==
  {VapiBody(TRUE, "tool-calls", l) : l \in SeqsUpTo(Entries, n)}
    \cup {VapiBody(TRUE, ty, <<>>) : ty \in Types}
    \cup {VapiBody(FALSE, "", <<>>)}

\* the toolCallList entry carrying tool invocation c
Entry(c) == ToolCall("vp_" \o c.name, TRUE, c.name, "object", c.args)

BookSara == Tool("book_appointment", Args(Jane, <<>>, Sara, D1, T10))
BookSarah == Tool("book_appointment", Args(Omar, <<>>, Sarah, D1, T10))
CheckD1 == Tool("check_availability", Args(<<>>, <<>>, <<>>, D1, <<>>))

\* concurrent runs: bookings and availability checks that meet on one slot
RaceTools == {BookSara, BookSarah, CheckD1}

RaceBodies ==
  RetellBodies(RaceTools, {"", "call_ended"}, {})
    \cup Retell2Bodies(RaceTools, {""})
    \cup VapiBodies({Entry(BookSara), Entry(CheckD1)}, 1, {"end-of-call-report"})
    \cup {VapiBody(TRUE, "tool-calls", <<Entry(CheckD1), Entry(BookSara)>>)}

RaceStores ==
  {<<>>, <<Appointment(Omar, NotProvided, Sara, D1, T10, Cancelled)>>}

Init ==
  /\ store \in RaceStores
  /\ roster = <<Doctor(Sara, <<"Cosmetic Dentistry">>), Doctor(Sarah, <<>>)>>
  /\ inbox = [r \in Slots |-> NoBody]
  /\ task = [r \in Slots |-> IdleTask]

Next == \E r \in Slots : Post(r, RaceBodies) \/ StoreReturns(r)

Spec == Init /\ [][Next]_vars

----------------------------------------------------------------------------
(* One request at a time, over a wide range of stores and arguments *)

Phone == <<"555-0100">>

\* rows the clinic's table can hold when the request arrives: other doctors,
\* other dates and times, cancelled rows, a row with a blank Status, and a
\* time that is no slot label
InitRows ==
  { Appointment(Omar, NotProvided, Sara,  D1, T10,   Confirmed),
    Appointment(Omar, NotProvided, Sara,  D1, T10,   Cancelled),
    Appointment(Omar, Phone,       Sarah, D1, T10,   Confirmed),
    Appointment(Omar, NotProvided, Ahmed, D1, T10,   Confirmed),
    Appointment(Omar, NotProvided, Sara,  D1, T11,   Confirmed),
    Appointment(Omar, NotProvided, Sara,  D2, T10,   Confirmed),
    Appointment(Omar, NotProvided, Sara,  D1, T10,   <<>>),
    Appointment(Omar, NotProvided, Sarah, D1, T1030, Cancelled) }

\* a day on which every slot of the doctor is booked
FullDay(doctor, date) ==
  [i \in 1..Len(allTimeSlots) |->
     Appointment(Omar, NotProvided, doctor, date, allTimeSlots[i], Confirmed)]

InitStores == SeqsUpTo(InitRows, MaxInit) \cup {FullDay(Sarah, D1)}

WideTools ==
  {Tool("book_appointment", a) :
     a \in BookArgs({Jane}, {Sara, sarah, Ahmed, Zed}, {D1}, {T10, T1030})
           \cup {Args(Jane, Phone, Sara, D2, T11),
                 Args(<<>>, <<>>, Sara, D1, T10), Args(Jane, <<>>, <<>>, D1, T10),
                 Args(Jane, <<>>, Sara, <<>>, T10), Args(Jane, <<>>, Sara, D1, <<>>)}}
    \cup {Tool("check_availability", a) :
            a \in CheckArgs({<<>>, Sara, sarah, Ahmed, Zed}, {D1})
                  \cup {Args(<<>>, <<>>, <<>>, D2, <<>>), NoArgs}}
    \cup {Tool("cancel_appointment", Args(Jane, <<>>, Sara, D1, T10)), Tool("", NoArgs)}

WideEntries ==
  {Entry(c) : c \in WideTools}
    \cup {ToolCall("vp_bad", TRUE, "book_appointment", "invalid", Args(Jane, <<>>, Sara, D1, T10)),
          ToolCall("vp_null", TRUE, "check_availability", "null", NoArgs),
          ToolCall("vp_nofn", FALSE, "", "object", NoArgs)}

OneBodies ==
  RetellBodies(WideTools, {"", "call_ended", "call_started", "call_analyzed"}, {BookSara})
    \cup Retell2Bodies(WideTools, {"", "call_ended", "call_started", "call_analyzed"})
    \cup VapiBodies(WideEntries, 1, {"end-of-call-report", "status-update"})

InitOne ==
  /\ store \in InitStores
  /\ roster \in Rosters
  /\ inbox = [r \in Slots |-> NoBody]
  /\ task = [r \in Slots |-> IdleTask]

NextOne == Post(1, OneBodies) \/ StoreReturns(1)

SpecOne == InitOne /\ [][NextOne]_vars

----------------------------------------------------------------------------
(* One request at a time, with Vapi batches of several tool calls and       *)
(* varied correlation identifiers                                           *)

CancelSara == Tool("cancel_appointment", Args(Jane, <<>>, Sara, D1, T10))

\* toolCallList entries: a booking, an availability check, an unknown tool,
\* an availability check without arguments and without an id, a booking
\* whose arguments are not valid JSON, and an entry without its function
\* descriptor
BatchEntries ==
  {Entry(BookSara), Entry(CheckD1), Entry(CancelSara),
   ToolCall("", TRUE, "check_availability", "object", NoArgs),
   ToolCall("vp_bad", TRUE, "book_appointment", "invalid", Args(Jane, <<>>, Sara, D1, T10)),
   ToolCall("vp_nofn", FALSE, "", "object", NoArgs)}

BatchBodies ==
  VapiBodies(BatchEntries, MaxBatch, {"end-of-call-report"})
    \cup {RetellBody(integ, IF integ = "retell" THEN "tool_call_invocation" ELSE "",
                     c.name, id, c.args) :
            integ \in {"retell", "retell2"}, id \in {"rt_1", "rt_9", ""},
            c \in {BookSara, CheckD1, CancelSara}}

InitBatch ==
  /\ store \in RaceStores
  /\ roster = <<Doctor(Sara, <<"Cosmetic Dentistry">>), Doctor(Sarah, <<>>)>>
  /\ inbox = [r \in Slots |-> NoBody]
  /\ task = [r \in Slots |-> IdleTask]

NextBatch == Post(1, BatchBodies) \/ StoreReturns(1)

SpecBatch == InitBatch /\ [][NextBatch]_vars

----------------------------------------------------------------------------
(* Requests that do not interleave: a request arrives only when every      *)
(* earlier one has been handled to its end                                *)

\* request r arrives while no other request is being handled
PostAlone(r, Bodies) ==
  /\ \A q \in Slots : task[q].pc \in {"idle", "done", "rejected"}
  /\ Post(r, Bodies)

BookLower == Tool("book_appointment", Args(Jane, <<>>, sarah, D1, T10))
BookSaraT11 == Tool("book_appointment", Args(Jane, Phone, Sara, D1, T11))
CheckSara == Tool("check_availability", Args(<<>>, <<>>, Sara, D1, <<>>))

SeqTools == {BookSara, BookSarah, BookLower, BookSaraT11, CheckD1, CheckSara}

SeqBodies == RetellBodies(SeqTools, {"call_ended"}, {})

SeqStores ==
  {<<>>,
   <<Appointment(Omar, NotProvided, Sara, D1, T10, Cancelled)>>,
   <<Appointment(Omar, NotProvided, Sarah, D1, T11, Confirmed)>>,
   <<Appointment(Omar, NotProvided, Sara, D1, T10, Confirmed)>>}

\* rosters in which the booked string Sara is a doctor's whole name, the
\* beginning of another doctor's name, or both
SeqRosters ==
  { << Doctor(Ahmed, <<"General Dentistry">>), Doctor(Sara, <<"Cosmetic Dentistry">>) >>,
    << Doctor(Sara, <<"Cosmetic Dentistry">>), Doctor(Sarah, <<>>) >>,
    << Doctor(Ahmed, <<"General Dentistry">>), Doctor(Sarah, <<"Orthodontics">>) >> }

InitSeq ==
  /\ store \in SeqStores
  /\ roster \in SeqRosters
  /\ inbox = [r \in Slots |-> NoBody]
  /\ task = [r \in Slots |-> IdleTask]

NextSeq == \E r \in Slots : PostAlone(r, SeqBodies) \/ StoreReturns(r)

SpecSeq == InitSeq /\ [][NextSeq]_vars

----------------------------------------------------------------------------
(* Concurrent requests whose store calls all return: the remote call a     *)
(* handler awaits is eventually answered or fails                          *)

LiveBodies ==
  RetellBodies({BookSara, CheckD1}, {"", "call_ended"}, {})
    \cup Retell2Bodies({BookSara}, {""})
    \cup VapiBodies({Entry(CheckD1)}, 1, {"end-of-call-report"})
    \cup {VapiBody(TRUE, "tool-calls", <<Entry(CheckD1), Entry(BookSara)>>),
          VapiBody(TRUE, "tool-calls",
                   <<Entry(CheckD1), ToolCall("vp_nofn", FALSE, "", "object", NoArgs)>>)}

NextLive == \E r \in Slots : Post(r, LiveBodies) \/ StoreReturns(r)

\* every store call a request awaits eventually returns or fails
StoreAnswers == \A r \in Slots : WF_vars(StoreReturns(r))

SpecLive == Init /\ [][NextLive]_vars /\ StoreAnswers

----------------------------------------------------------------------------
(* Vocabulary of the properties *)

Range(q) == {q[k] : k \in 1..Len(q)}

Last(q) == q[Len(q)]

\* the arguments of tool call i of request r
ArgsOf(r, i) == CurrentCall(inbox[r], i).args

\* the store calls request r has made for its tool call i, in order
CallsFor(t, i) ==
  LET ofCall(e) == e.idx = i
  IN  SelectSeq(t.trace, ofCall)

\* row x is a live (not cancelled) appointment on date at time
Active(x, date, time) ==
  x.Date = date /\ x.Time = time /\ x.Status # Cancelled

\* name occurs in field, letter case ignored
ContainsCI(field, name) == includes(toLowerCase(field), toLowerCase(name))

\* the positions in the table of the live rows of (doctor, date, time)
ActiveAt(table, doctor, date, time) ==
  {k \in 1..Len(table) : Active(table[k], date, time) /\ table[k].Doctor = doctor}

\* request r has handled its tool call i, a book_appointment, to the
\* booking-confirmed result
ConfirmedCall(r, i) ==
  /\ i \in 1..Len(task[r].results)
  /\ CurrentCall(inbox[r], i).name = "book_appointment"
  /\ Head(task[r].results[i].result) = "Your appointment is confirmed! "

\* what the guard read of tool call i of request r returned
GuardSnapshot(r, i) ==
  LET reads == CallsFor(task[r], i)
  IN  reads[1].value

\* in request r, the step is the return of a store call that succeeded (ok)
\* or failed (~ok)
Returned(r, from, ok) ==
  /\ task[r].pc = from
  /\ task'[r] # task[r]
  /\ Len(task'[r].trace) = Len(task[r].trace) + 1
  /\ Last(task'[r].trace).ok = ok

----------------------------------------------------------------------------
(* C1 *)

\* C1: two book_appointment invocations for the same (doctor, date, time)
\* whose guard reads both came before either create both pass the guard and
\* both insert: whenever two requests are confirmed for one slot and neither
\* guard read saw a live row of that slot, the store holds two live rows of it.
C1_BothInsert ==
  \A r1, r2 \in Slots : \A i1 \in 1..MaxBatch, i2 \in 1..MaxBatch :
    LET a1 == ArgsOf(r1, i1)
        a2 == ArgsOf(r2, i2)
        unseen(snap) == \A k \in 1..Len(snap) :
                          ~(snap[k].time = a1.time /\ snap[k].status # Cancelled
                            /\ snap[k].doctor = a1.doctor)
    IN  ( /\ r1 # r2
          /\ ConfirmedCall(r1, i1) /\ ConfirmedCall(r2, i2)
          /\ a1.doctor = a2.doctor /\ a1.date = a2.date /\ a1.time = a2.time
          /\ unseen(GuardSnapshot(r1, i1)) /\ unseen(GuardSnapshot(r2, i2)) )
        => Cardinality(ActiveAt(store, a1.doctor, a1.date, a1.time)) >= 2

\* C1 witness: two requests confirmed for the same slot, neither guard read
\* having seen the other's row, and two live rows of that slot in the store
C1_Witness ==
  \E r1, r2 \in Slots :
    /\ r1 # r2
    /\ ConfirmedCall(r1, 1) /\ ConfirmedCall(r2, 1)
    /\ ArgsOf(r1, 1) = ArgsOf(r2, 1)
    /\ \A k \in 1..Len(GuardSnapshot(r1, 1)) : GuardSnapshot(r1, 1)[k].status = Cancelled
    /\ \A k \in 1..Len(GuardSnapshot(r2, 1)) : GuardSnapshot(r2, 1)[k].status = Cancelled
    /\ Cardinality(ActiveAt(store, ArgsOf(r1, 1).doctor, ArgsOf(r1, 1).date,
                            ArgsOf(r1, 1).time)) = 2

----------------------------------------------------------------------------
(* C2 *)

\* the result string of the tool call request r has just finished
NewResult(r) == task'[r].results[Len(task[r].results) + 1].result

\* a row of the table that the guard of a booking with arguments a counts as
\* a conflict: same date, live, the same time string, and a doctor field
\* containing the requested doctor
Conflicts(x, a) ==
  /\ x.Date = a.date
  /\ x.Status # Cancelled
  /\ x.Time = a.time
  /\ ContainsCI(x.Doctor, a.doctor)

\* C2: when the guard read of a book_appointment with all required arguments
\* returns, the call is rejected with the "slot just taken" result, without a
\* create, if and only if the table holds for that date a row that is not
\* cancelled, has exactly the requested time and a doctor field containing the
\* requested doctor, letter case ignored; otherwise it goes on to the insert.
C2_GuardRule ==
  [][\A r \in Slots :
       Returned(r, "guardRead", TRUE) =>
         LET a == ArgsOf(r, task[r].idx)
             conflict == \E k \in 1..Len(store) : Conflicts(store[k], a)
             rejected ==
               /\ Len(task'[r].results) = Len(task[r].results) + 1
               /\ NewResult(r) = MsgSlotTaken(a.time, a.doctor, a.date)
               /\ task'[r].pc # "create"
               /\ store' = store
             inserting ==
               /\ task'[r].pc = "create"
               /\ task'[r].idx = task[r].idx
               /\ task'[r].results = task[r].results
         IN  /\ conflict <=> rejected
             /\ ~conflict <=> inserting]_vars

\* C2 witness: a booking rejected as slot taken (Scenario B: the requested
\* doctor string is contained in the stored one), nothing created
C2_Witness ==
  \E r \in Slots :
    /\ task[r].pc = "done"
    /\ Len(task[r].results) = 1
    /\ task[r].results[1].result
         = MsgSlotTaken(ArgsOf(r, 1).time, ArgsOf(r, 1).doctor, ArgsOf(r, 1).date)
    /\ \A k \in 1..Len(task[r].trace) : task[r].trace[k].op # "create"
    /\ \E k \in 1..Len(store) :
         store[k].Doctor # ArgsOf(r, 1).doctor /\ Conflicts(store[k], ArgsOf(r, 1))

----------------------------------------------------------------------------
(* C3 *)

\* the position of label x in the fixed slot list
SlotIndex(x) == CHOOSE k \in 1..Len(allTimeSlots) : allTimeSlots[k] = x

\* request r is a finished check_availability that computed availability
Computed(r) ==
  /\ task[r].pc = "done"
  /\ inbox[r].integ # "none"
  /\ Len(task[r].results) = 1
  /\ CurrentCall(inbox[r], 1).name = "check_availability"
  /\ Len(task[r].trace) = 2
  /\ task[r].trace[2].ok

\* C3: for every roster doctor the handler reports on, the free slots it
\* computed are the 9 fixed labels minus the time strings of the rows of the
\* requested date whose doctor field contains the doctor's name (letter case
\* ignored, cancelled rows included), in the order of the fixed list.
C3_FreeSlots ==
  \A r \in Slots :
    Computed(r) =>
      /\ Len(task[r].availabilityData) = Len(task[r].relevant)
      /\ \A i \in 1..Len(task[r].availabilityData) :
           LET d == task[r].availabilityData[i]
               date == ArgsOf(r, 1).date
               booked == {store[k].Time : k \in {j \in 1..Len(store) :
                            store[j].Date = date /\ ContainsCI(store[j].Doctor, d.doctor)}}
               free == d.freeSlots
           IN  /\ d.doctor = task[r].relevant[i].name
               /\ \E j \in 1..Len(roster) : roster[j].Name = d.doctor
               /\ Range(free) = Range(allTimeSlots) \ booked
               /\ \A p, q \in 1..Len(free) :
                    p < q => SlotIndex(free[p]) < SlotIndex(free[q])

\* C3 witness (Scenario A): an availability check in which one doctor has
\* lost a slot to a booking and another doctor keeps all 9
C3_Witness ==
  \E r \in Slots :
    /\ Computed(r)
    /\ \E i, j \in 1..Len(task[r].availabilityData) :
         /\ Len(task[r].availabilityData[i].freeSlots) = Len(allTimeSlots) - 1
         /\ ~arrayIncludes(task[r].availabilityData[i].freeSlots, T10)
         /\ Len(task[r].availabilityData[j].freeSlots) = Len(allTimeSlots)

----------------------------------------------------------------------------
(* C4 *)

\* row x of the table is at the slot a booking with arguments a asks for:
\* same date, same time string, doctor field containing the requested doctor
AtSlot(x, a) ==
  x.Date = a.date /\ x.Time = a.time /\ ContainsCI(x.Doctor, a.doctor)

\* the table holds rows at the slot of a, and every one of them is cancelled
OnlyCancelledAt(table, a) ==
  /\ \E k \in 1..Len(table) : AtSlot(table[k], a)
  /\ \A k \in 1..Len(table) : AtSlot(table[k], a) => table[k].Status = Cancelled

\* C4: cancelled appointments at the requested doctor, date and time never
\* block a booking: when every row at that slot is cancelled, the guard read
\* sends the handler on to the create, and the create, when the store accepts
\* it, adds a new Confirmed row for that slot beside the cancelled ones.
C4_CancelledIgnored ==
  [][\A r \in Slots :
       LET a == ArgsOf(r, task[r].idx)
       IN  /\ (Returned(r, "guardRead", TRUE) /\ OnlyCancelledAt(store, a))
                => task'[r].pc = "create"
           /\ (Returned(r, "create", TRUE) /\ OnlyCancelledAt(store, a))
                => /\ Len(store') = Len(store) + 1
                   /\ SubSeq(store', 1, Len(store)) = store
                   /\ AtSlot(Last(store'), a)
                   /\ Last(store').Status = Confirmed]_vars

\* C4 witness: a confirmed booking whose new row stands beside a cancelled
\* row of the same doctor, date and time
C4_Witness ==
  \E r \in Slots :
    /\ ConfirmedCall(r, 1)
    /\ Len(store) >= 2
    /\ Last(store).Status = Confirmed
    /\ \E k \in 1..(Len(store) - 1) :
         /\ store[k].Status = Cancelled
         /\ store[k].Doctor = Last(store).Doctor
         /\ store[k].Date = Last(store).Date
         /\ store[k].Time = Last(store).Time

----------------------------------------------------------------------------
(* C5 *)

\* the live rows of the table on the date and at the time of arguments a
LiveAt(table, a) == {k \in 1..Len(table) : Active(table[k], a.date, a.time)}

\* s is the full name of a doctor of the roster
RosterName(s) == \E j \in 1..Len(roster) : roster[j].Name = s

\* C5 as claimed: a booking for a roster doctor passes the guard whenever the
\* live appointments at that date and time all belong to other roster doctors,
\* even if the requested name occurs inside another doctor's name.
C5_Original ==
  [][\A r \in Slots :
       LET a == ArgsOf(r, task[r].idx)
       IN  ( /\ Returned(r, "guardRead", TRUE)
             /\ RosterName(a.doctor)
             /\ LiveAt(store, a) # {}
             /\ \A k \in LiveAt(store, a) :
                  RosterName(store[k].Doctor) /\ store[k].Doctor # a.doctor )
           => task'[r].pc = "create"]_vars

\* C5 amended: when live appointments exist at the requested date and time
\* and none of their doctor fields contains the requested doctor string
\* (letter case ignored), the booking passes the guard and, the store
\* accepting the create, ends confirmed; a live appointment of another doctor
\* whose stored name contains the requested string blocks the booking.
C5_NoFalseConflict ==
  [][\A r \in Slots :
       LET a == ArgsOf(r, task[r].idx)
           others == /\ LiveAt(store, a) # {}
                     /\ \A k \in LiveAt(store, a) : ~ContainsCI(store[k].Doctor, a.doctor)
           shadowed == \E k \in LiveAt(store, a) :
                         /\ ContainsCI(store[k].Doctor, a.doctor)
                         /\ toLowerCase(store[k].Doctor) # toLowerCase(a.doctor)
       IN  /\ (Returned(r, "guardRead", TRUE) /\ others) => task'[r].pc = "create"
           /\ (Returned(r, "create", TRUE) /\ others)
                => NewResult(r) = formatConfirmationFast(a.patient_name, a.doctor, a.date, a.time)
           /\ (Returned(r, "guardRead", TRUE) /\ shadowed)
                => NewResult(r) = MsgSlotTaken(a.time, a.doctor, a.date)]_vars

\* C5 witness: a booking confirmed at a date and time at which another
\* doctor holds a live appointment
C5_Witness ==
  \E r \in Slots :
    /\ ConfirmedCall(r, 1)
    /\ Len(store) >= 2
    /\ Last(store).Doctor = ArgsOf(r, 1).doctor
    /\ \E k \in 1..(Len(store) - 1) :
         /\ Active(store[k], Last(store).Date, Last(store).Time)
         /\ ~ContainsCI(store[k].Doctor, Last(store).Doctor)

----------------------------------------------------------------------------
(* C6 *)

\* m is a booking-confirmed message
IsConfirmation(m) == m # <<>> /\ Head(m) = "Your appointment is confirmed! "

\* the step finishes a tool call of request r
Finishes(r) == Len(task'[r].results) = Len(task[r].results) + 1

\* C6: a create that the store accepts adds exactly one row, carrying the
\* patient name, doctor, date and time of the call with status Confirmed
\* (and the phone, or "Not provided"), and the call returns the
\* booking-confirmed message naming them; no call returns a confirmation in
\* any step but the successful return of its own create.
C6_ConfirmedInsert ==
  [][\A r \in Slots :
       LET a == ArgsOf(r, task[r].idx)
       IN  /\ Returned(r, "create", TRUE)
                => /\ store' = store \o
                        << [Patient_Name |-> a.patient_name,
                            Patient_Phone |-> IF a.patient_phone = <<>>
                                                THEN <<"Not provided">>
                                                ELSE a.patient_phone,
                            Doctor |-> a.doctor, Date |-> a.date, Time |-> a.time,
                            Status |-> <<"Confirmed">>] >>
                   /\ Finishes(r)
                   /\ NewResult(r) =
                        <<"Your appointment is confirmed! ">> \o a.patient_name
                          \o <<", you're booked with ">> \o a.doctor \o <<" on ">>
                          \o formattedDate(a.date) \o <<" at ">> \o a.time
                          \o <<". We look forward to seeing you!">>
           /\ (Finishes(r) /\ IsConfirmation(NewResult(r)))
                => Returned(r, "create", TRUE) /\ Len(store') = Len(store) + 1
           /\ ~Returned(r, "create", TRUE) => (task'[r] # task[r] => store' = store)]_vars

\* C6 witness (Scenario C): Jane is confirmed with a doctor for a date and
\* time, with a phone number, and the row is the last of the table
C6_Witness ==
  \E r \in Slots :
    /\ ConfirmedCall(r, 1)
    /\ task[r].response.status = "200"
    /\ store # <<>>
    /\ Last(store).Patient_Name = Jane
    /\ Last(store).Patient_Phone = Phone
    /\ Last(store).Status = Confirmed
    /\ Len(store) > 1

----------------------------------------------------------------------------
(* C7 *)

\* entry k of the calls of request r is a successful read of the appointment
\* list, made for tool call i, a book_appointment, for the date it asks for
GuardReadAt(r, k, i) ==
  LET e == task[r].trace[k]
  IN  /\ e.op = "checkAppointments"
      /\ e.ok
      /\ e.idx = i
      /\ CurrentCall(inbox[r], i).name = "book_appointment"
      /\ e.arg = ArgsOf(r, i).date

\* C7: every insert a request issues (one pending at pc = "create" or one
\* already made) comes directly after a successful read of the appointment
\* list for the requested date made for the same tool call of the same
\* request, never after a read made for an earlier check_availability, and
\* the guard decides on the list that read returned.
C7_FreshRead ==
  \A r \in Slots :
    /\ \A k \in 1..Len(task[r].trace) :
         task[r].trace[k].op = "create"
           => k > 1 /\ GuardReadAt(r, k - 1, task[r].trace[k].idx)
    /\ task[r].pc = "create"
         => /\ task[r].trace # <<>>
            /\ GuardReadAt(r, Len(task[r].trace), task[r].idx)
            /\ task[r].existingAppointments = Last(task[r].trace).value

\* C7 witness: a request has passed its guard read and awaits its create,
\* and meanwhile another request has added a row for that date
C7_Witness ==
  \E r \in Slots :
    /\ task[r].pc = "create"
    /\ Len(checkAppointments(store, ArgsOf(r, task[r].idx).date))
         > Len(task[r].existingAppointments)

----------------------------------------------------------------------------
(* C8 *)

\* C8: each store operation is attempted at most once per tool invocation;
\* a store call that fails is the last store call of its invocation (no
\* retry, and no insert after a failed guard read), and the invocation's
\* tool result is the technical-issue apology.
C8_FailureSurfaces ==
  \A r \in Slots :
    \A k \in 1..Len(task[r].trace) :
      LET e == task[r].trace[k]
      IN  /\ \A j \in 1..Len(task[r].trace) :
               (j # k /\ task[r].trace[j].idx = e.idx) => task[r].trace[j].op # e.op
          /\ ~e.ok =>
               /\ \A j \in (k + 1)..Len(task[r].trace) : task[r].trace[j].idx # e.idx
               /\ task[r].pc \notin {"getDoctors", "checkAppointments", "guardRead", "create"}
                    \/ task[r].idx # e.idx
               /\ Len(task[r].results) >= e.idx
               /\ task[r].results[e.idx].result
                    = <<"I apologize, there was a technical issue. Let me transfer you to our staff.">>
               /\ inbox[r].integ # "vapi" =>
                    task[r].response = ToolResponse(inbox[r].tool_call_id, MsgApology)

\* C8 witness: a booking whose guard read failed: it was answered with the
\* apology and issued no insert
C8_Witness ==
  \E r \in Slots :
    /\ task[r].pc = "done"
    /\ Len(task[r].trace) = 1
    /\ task[r].trace[1].op = "checkAppointments"
    /\ ~task[r].trace[1].ok
    /\ CurrentCall(inbox[r], 1).name = "book_appointment"
    /\ task[r].results[1].result = MsgApology
    /\ task[r].response.status = "200"

----------------------------------------------------------------------------
(* C9, C10 *)

\* body b carries the dispatch envelope of a tool invocation: a message of
\* type tool-calls (Vapi), the tool_call_invocation event (routes.js), a tool
\* name (the later Retell webhook)
HasEnvelope(b) ==
  \/ b.integ = "vapi" /\ b.hasMessage /\ b.type = "tool-calls"
  \/ b.integ = "retell" /\ b.event = "tool_call_invocation"
  \/ b.integ = "retell2" /\ b.name # ""

\* body b lacks its dispatch envelope entirely
NoEnvelope(b) ==
  \/ b.integ = "vapi" /\ ~b.hasMessage
  \/ b.integ \in {"retell", "retell2"} /\ b.event = "" /\ b.name = ""

\* response p answers body b's tool invocations with spoken strings
Spoken(b, p) ==
  /\ p.status = "200"
  /\ IF b.integ = "vapi"
       THEN /\ p.kind = "batch"
            /\ Len(p.results) = Len(b.toolCallList)
            /\ \A i \in 1..Len(p.results) : p.results[i].result # <<>>
       ELSE p.kind = "tool" /\ p.content # <<>>

\* C9: a request that carries its dispatch envelope is never left with its
\* handler rejected (what follows an exception that escapes the route), and
\* once handled it has a normal response with a spoken string for each of
\* its tool invocations, whatever the tool names, the arguments and the
\* store's answers.
C9_AlwaysSpoken ==
  \A r \in Slots :
    HasEnvelope(inbox[r]) =>
      /\ task[r].pc # "rejected"
      /\ task[r].pc = "done" => Spoken(inbox[r], task[r].response)

\* C10: a request without its dispatch envelope is answered with the
\* protocol-level error response (status 400) in every webhook integration,
\* and makes no store call.
C10_EnvelopeRequired ==
  \A r \in Slots :
    (inbox[r].integ # "none" /\ NoEnvelope(inbox[r])) =>
      /\ task[r].response = BadRequest
      /\ task[r].trace = <<>>

----------------------------------------------------------------------------
(* C11 *)

\* the positions of the tool calls request r carries
CallIndexes(r) ==
  IF inbox[r].integ = "vapi" THEN 1..Len(inbox[r].toolCallList) ELSE {1}

\* the handler of request r is waiting for a store call of its tool call i
AwaitingStore(r, i) ==
  /\ task[r].idx = i
  /\ task[r].pc \in {"getDoctors", "checkAppointments", "guardRead", "create"}

\* tool call c lacks an argument its tool requires
MissingRequired(c) ==
  \/ c.name = "check_availability" /\ c.args.date = <<>>
  \/ /\ c.name = "book_appointment"
     /\ \/ c.args.patient_name = <<>> \/ c.args.doctor = <<>>
        \/ c.args.date = <<>> \/ c.args.time = <<>>

\* the spoken prompt asking for the arguments tool call c lacks
PromptFor(c) ==
  IF c.name = "check_availability"
    THEN <<"I need a date to check availability. Which date were you thinking?">>
    ELSE <<"I need your name, preferred doctor, date, and time to book an appointment. Could you provide those details?">>

\* C11: a check_availability without a date, and a book_appointment missing
\* any of patient_name, doctor, date or time, makes no store call and its
\* tool result is the spoken prompt asking for the missing details.
C11_PromptNoStore ==
  \A r \in Slots : \A i \in CallIndexes(r) :
    LET c == CurrentCall(inbox[r], i)
    IN  MissingRequired(c) =>
          /\ CallsFor(task[r], i) = <<>>
          /\ ~AwaitingStore(r, i)
          /\ i \in 1..Len(task[r].results) => task[r].results[i].result = PromptFor(c)

----------------------------------------------------------------------------
(* C12 *)

\* tool call i of request r is present in full: a Vapi entry has its function
\* descriptor, and so have the entries before it
WellFormed(r, i) ==
  inbox[r].integ = "vapi" => \A k \in 1..i : inbox[r].toolCallList[k].hasFunction

\* tool call c names a tool the routes do not know
UnknownTool(c) == c.name \notin {"check_availability", "book_appointment"}

\* C12: a tool invocation whose name is neither check_availability nor
\* book_appointment makes no store call and is not treated as an error: its
\* tool result is the fixed "could not process that request" string (not the
\* technical-issue apology), delivered in a normal response.
C12_UnknownToolString ==
  \A r \in Slots : \A i \in CallIndexes(r) :
    LET c == CurrentCall(inbox[r], i)
    IN  (HasEnvelope(inbox[r]) /\ WellFormed(r, i) /\ UnknownTool(c)) =>
          /\ CallsFor(task[r], i) = <<>>
          /\ ~AwaitingStore(r, i)
          /\ ~(task[r].pc = "rejected" /\ task[r].idx = i)
          /\ i \in 1..Len(task[r].results) =>
               task[r].results[i].result
                 = <<"I apologize, I could not process that request. Please try again.">>
          /\ (task[r].pc = "done" /\ inbox[r].integ # "vapi") =>
               task[r].response = ToolResponse(inbox[r].tool_call_id, MsgUnknownTool)
          /\ (task[r].pc = "done" /\ inbox[r].integ = "vapi") =>
               /\ task[r].response.status = "200"
               /\ task[r].response.results[i].result = MsgUnknownTool

\* C12 witness: a request for the tool cancel_appointment answered with the
\* fixed string, no store call made
C12_Witness ==
  \E r \in Slots :
    /\ task[r].pc = "done"
    /\ HasEnvelope(inbox[r])
    /\ Len(task[r].results) = 1
    /\ CurrentCall(inbox[r], 1).name = "cancel_appointment"
    /\ task[r].trace = <<>>
    /\ task[r].response.status = "200"
    /\ task[r].results[1].result = MsgUnknownTool

----------------------------------------------------------------------------
(* C13 *)

\* tool call i of request r is a check_availability with a date whose roster
\* read has succeeded
RosterRead(r, i) ==
  /\ CurrentCall(inbox[r], i).name = "check_availability"
  /\ ArgsOf(r, i).date # <<>>
  /\ CallsFor(task[r], i) # <<>>
  /\ CallsFor(task[r], i)[1].op = "getDoctors"
  /\ CallsFor(task[r], i)[1].ok

\* the doctor filter of tool call i of request r is given and occurs in no
\* roster doctor's name, letter case ignored
FilterMatchesNone(r, i) ==
  /\ ArgsOf(r, i).doctor # <<>>
  /\ \A k \in 1..Len(roster) : ~ContainsCI(roster[k].Name, ArgsOf(r, i).doctor)

\* the doctor-not-found outcome for the filter, carrying the names of the
\* roster in roster order
NotFoundListing(filter) ==
  <<"I'm sorry, I couldn't find a doctor named ">> \o filter
    \o <<". Our available doctors are: ">>
    \o join([k \in 1..Len(roster) |-> roster[k].Name], <<", ">>)
    \o <<". Would you like to book with one of them?">>

\* the outcome of C13 for tool call i of request r: the appointment list is
\* not read and the result is the doctor-not-found listing
NotFoundOutcome(r, i) ==
  /\ Len(CallsFor(task[r], i)) = 1
  /\ ~AwaitingStore(r, i)
  /\ i \in 1..Len(task[r].results)
  /\ task[r].results[i].result = NotFoundListing(ArgsOf(r, i).doctor)

\* C13 as stated: whenever the filter matches no roster doctor, the outcome
\* is doctor-not-found; an empty roster is not set apart.
C13_Original ==
  \A r \in Slots : \A i \in CallIndexes(r) :
    (RosterRead(r, i) /\ FilterMatchesNone(r, i)) => NotFoundOutcome(r, i)

\* C13: when the roster read returns at least one doctor and the doctor
\* filter matches none of them by case-insensitive substring,
\* check_availability returns the doctor-not-found result listing every
\* roster doctor's name in roster order and does not read the appointments.
C13_DoctorNotFound ==
  \A r \in Slots : \A i \in CallIndexes(r) :
    (RosterRead(r, i) /\ FilterMatchesNone(r, i) /\ roster # <<>>)
      => NotFoundOutcome(r, i)

\* C13 witness (Scenario D): a filter that matches neither of two roster
\* doctors, answered with both names in roster order
C13_Witness ==
  \E r \in Slots :
    /\ task[r].pc = "done"
    /\ 1 \in CallIndexes(r)
    /\ RosterRead(r, 1) /\ FilterMatchesNone(r, 1)
    /\ Len(roster) = 2
    /\ task[r].response.status = "200"
    /\ task[r].results[1].result
         = <<"I'm sorry, I couldn't find a doctor named ">> \o Zed
             \o <<". Our available doctors are: ">> \o Ahmed \o <<", ">> \o Sara
             \o <<". Would you like to book with one of them?">>

----------------------------------------------------------------------------
(* C14 *)

\* the roster positions the doctor filter selects: all of them when no
\* filter is given, otherwise those whose name contains it, letter case
\* ignored
Selected(filter) ==
  {k \in 1..Len(roster) : filter = <<>> \/ ContainsCI(roster[k].Name, filter)}

\* the n-th selected roster position, counting from the top of the roster
NthSelected(filter, n) ==
  CHOOSE k \in Selected(filter) :
    Cardinality({j \in Selected(filter) : j < k}) = n - 1

\* C14: a check_availability whose roster read succeeded and whose filter
\* selects at least one doctor goes on to read the appointments, and the
\* availability it computes has one entry per selected roster doctor, in
\* roster order: the doctors whose name contains the filter as a
\* case-insensitive substring, or the whole roster when no filter is given.
C14_FilterInRosterOrder ==
  \A r \in Slots :
    /\ \A i \in CallIndexes(r) :
         ( /\ RosterRead(r, i)
           /\ Selected(ArgsOf(r, i).doctor) # {}
           /\ i \in 1..Len(task[r].results) )
         => /\ Len(CallsFor(task[r], i)) = 2
            /\ CallsFor(task[r], i)[2].op = "checkAppointments"
    /\ Computed(r) =>
         LET filter == ArgsOf(r, 1).doctor
             data == task[r].availabilityData
         IN  /\ Len(data) = Cardinality(Selected(filter))
             /\ \A n \in 1..Len(data) :
                  data[n].doctor = roster[NthSelected(filter, n)].Name

\* C14 witness: the filter "sarah" against the roster Sara, Sarah: the
\* availability computed has the one entry of Sarah
C14_Witness ==
  \E r \in Slots :
    /\ Computed(r)
    /\ ArgsOf(r, 1).doctor = sarah
    /\ Len(roster) = 2
    /\ Len(task[r].availabilityData) = 1
    /\ task[r].availabilityData[1].doctor = Sarah

----------------------------------------------------------------------------
(* C15 *)

\* what the store answered to the calls of tool call i of request r, in order
Outcomes(r, i) ==
  LET calls == CallsFor(task[r], i)
  IN  [k \in 1..Len(calls) |-> <<calls[k].op, calls[k].arg, calls[k].ok, calls[k].value>>]

\* tool call i of request r is a finished check_availability all of whose
\* store reads succeeded
CheckedOk(r, i) ==
  /\ i \in 1..Len(task[r].results)
  /\ CurrentCall(inbox[r], i).name = "check_availability"
  /\ \A k \in 1..Len(Outcomes(r, i)) : Outcomes(r, i)[k][3]

\* two availability checks of one webhook with the same arguments that read
\* the same roster and the same appointments returned the same string
Repeatable ==
  \A r1, r2 \in Slots : \A i1 \in CallIndexes(r1), i2 \in CallIndexes(r2) :
    ( /\ CheckedOk(r1, i1) /\ CheckedOk(r2, i2)
      /\ inbox[r1].integ = inbox[r2].integ
      /\ ArgsOf(r1, i1) = ArgsOf(r2, i2)
      /\ Outcomes(r1, i1) = Outcomes(r2, i2) )
    => task[r1].results[i1].result = task[r2].results[i2].result

\* a step of the handler of check_availability (the arrival of a request,
\* the return of its roster read or of its appointment read) changes neither
\* table, and a step that changes a table is the create of a book_appointment
ReadOnlyStep ==
  /\ \A r \in Slots :
       (task[r].pc \in {"idle", "getDoctors", "checkAppointments"} /\ task'[r] # task[r])
         => (store' = store /\ roster' = roster)
  /\ (store' # store \/ roster' # roster) =>
       \E r \in Slots :
         /\ task[r].pc = "create"
         /\ CurrentCall(inbox[r], task[r].idx).name = "book_appointment"
         /\ task'[r] # task[r]
         /\ roster' = roster
         /\ Len(store') = Len(store) + 1
         /\ SubSeq(store', 1, Len(store)) = store

----------------------------------------------------------------------------
(* C16 *)

\* the opening fragments of the strings each tool can return
OpeningsOf(name) ==
  IF name = "check_availability"
    THEN {"On ", "I'm sorry, there are no available slots on ",
          "I'm sorry, I couldn't find a doctor named ",
          Head(MsgNeedDate), Head(MsgNoRoster), Head(MsgApology)}
  ELSE IF name = "book_appointment"
    THEN {"Your appointment is confirmed! ", "I'm sorry, the ",
          Head(MsgNeedBooking), Head(MsgApology)}
  ELSE {Head(MsgUnknownTool)}

\* C16: the response to a Vapi tool-calls request has exactly one result per
\* entry of toolCallList, in the order of the list, the i-th result being the
\* string of the i-th tool call under the i-th entry's id unchanged; the
\* response to a Retell tool call carries the request's tool_call_id
\* unchanged.
C16_CorrelationEchoed ==
  \A r \in Slots :
    (task[r].pc = "done" /\ HasEnvelope(inbox[r])) =>
      IF inbox[r].integ = "vapi"
        THEN /\ task[r].response.kind = "batch"
             /\ Len(task[r].response.results) = Len(inbox[r].toolCallList)
             /\ \A i \in 1..Len(inbox[r].toolCallList) :
                  /\ task[r].response.results[i].toolCallId = inbox[r].toolCallList[i].id
                  /\ Head(task[r].response.results[i].result)
                       \in OpeningsOf(inbox[r].toolCallList[i].name)
        ELSE /\ task[r].response.kind = "tool"
             /\ task[r].response.tool_call_id = inbox[r].tool_call_id
             /\ Head(task[r].response.content) \in OpeningsOf(inbox[r].name)

\* C16 witness: a batch of an availability check followed by a booking,
\* answered with two results under the two ids, in that order
C16_Witness ==
  \E r \in Slots :
    /\ task[r].pc = "done"
    /\ inbox[r].integ = "vapi"
    /\ Len(inbox[r].toolCallList) = 2
    /\ Len(task[r].response.results) = 2
    /\ task[r].response.results[1].toolCallId = "vp_check_availability"
    /\ task[r].response.results[2].toolCallId = "vp_book_appointment"
    /\ Head(task[r].response.results[2].result) = "Your appointment is confirmed! "

----------------------------------------------------------------------------
(* C17 *)

\* the step leaves the Appointments table as it is or adds one row at its
\* end whose status is Confirmed
AppendsConfirmed ==
  \/ store' = store
  \/ /\ Len(store') = Len(store) + 1
     /\ \A k \in 1..Len(store) : store'[k] = store[k]
     /\ store'[Len(store')].Status = <<"Confirmed">>

\* C17: the system only ever adds appointments: every step keeps each
\* existing row as it was (no update, no delete, no status set to
\* Cancelled) and a row it adds has status Confirmed.
C17_AppendOnly == [][AppendsConfirmed]_vars

\* C17 witness: after two bookings of a slot that a cancelled row occupied,
\* the cancelled row is still the first row and two Confirmed rows follow it
C17_Witness ==
  /\ Len(store) = 3
  /\ store[1] = Appointment(Omar, NotProvided, Sara, D1, T10, Cancelled)
  /\ store[2].Status = Confirmed /\ store[3].Status = Confirmed
  /\ \A r \in Slots : task[r].pc = "done"

----------------------------------------------------------------------------
(* C18 *)

\* the rows request r has created
CreatedBy(r) ==
  {task[r].trace[k].value[1] :
     k \in {j \in 1..Len(task[r].trace) :
              task[r].trace[j].op = "create" /\ task[r].trace[j].ok}}

\* C18: every appointment created by book_appointment has a time that is one
\* of the 9 fixed slot labels, 09:00 AM through 05:00 PM at one-hour steps.
C18_TimeIsSlotLabel ==
  \A r \in Slots : \A x \in CreatedBy(r) :
    /\ x.Time \in Range(allTimeSlots)
    /\ \E k \in 1..Len(store) : store[k] = x

----------------------------------------------------------------------------
(* C19 *)

\* the positions of the doctors of the availability data that have a free
\* slot, in increasing order
WithFree(data) ==
  LET hasFree(i) == data[i].freeSlots # <<>>
  IN  SelectSeq([i \in 1..Len(data) |-> i], hasFree)

\* the first min(5, n) of n labels, separated by commas
RECURSIVE FirstFive(_, _)
FirstFive(labels, k) ==
  IF k > Len(labels) \/ k > 5 THEN <<>>
  ELSE (IF k = 1 THEN <<>> ELSE <<", ">>) \o labels[k] \o FirstFive(labels, k + 1)

\* the listing of the doctors at positions idxs, from the n-th on
RECURSIVE Listing(_, _, _)
Listing(data, idxs, n) ==
  IF n > Len(idxs) THEN <<>>
  ELSE (IF n = 1 THEN <<>> ELSE <<". ">>)
         \o data[idxs[n]].doctor \o <<" at ">> \o FirstFive(data[idxs[n]].freeSlots, 1)
         \o Listing(data, idxs, n + 1)

\* C19: check_availability returns the "no available slots" message if and
\* only if no doctor of its (post-filter) result has a free slot; otherwise
\* its message lists exactly the doctors with at least one free slot, in
\* roster order, each with the first min(5, n) of its free slot labels in the
\* order of the fixed set.
C19_ListsFreeSlots ==
  \A r \in Slots :
    Computed(r) =>
      LET data == task[r].availabilityData
          msg == task[r].results[1].result
          date == formattedDate(ArgsOf(r, 1).date)
      IN  IF WithFree(data) = <<>>
            THEN msg = <<"I'm sorry, there are no available slots on ">> \o date
                         \o <<". Would you like to try a different date?">>
            ELSE msg = <<"On ">> \o date \o <<" we have: ">>
                         \o Listing(data, WithFree(data), 1)
                         \o <<". Which time works best for you?">>

----------------------------------------------------------------------------
(* C20 *)

\* C20: when the roster read succeeds and returns zero doctors,
\* check_availability does not read the appointments and answers with the
\* "could not retrieve our doctor list" message, with or without a doctor
\* filter (not with a doctor-not-found or a fully-booked message).
C20_EmptyRoster ==
  \A r \in Slots : \A i \in CallIndexes(r) :
    (RosterRead(r, i) /\ CallsFor(task[r], i)[1].value = <<>>) =>
      /\ Len(CallsFor(task[r], i)) = 1
      /\ ~AwaitingStore(r, i)
      /\ i \in 1..Len(task[r].results)
      /\ task[r].results[i].result
           = <<"I'm sorry, I could not retrieve our doctor list right now. Please call back in a moment.">>

\* C20 witness: an availability check with a doctor filter against an empty
\* roster, answered with the could-not-retrieve message after one store call
C20_Witness ==
  \E r \in Slots :
    /\ task[r].pc = "done"
    /\ roster = <<>>
    /\ 1 \in CallIndexes(r)
    /\ RosterRead(r, 1)
    /\ ArgsOf(r, 1).doctor # <<>>
    /\ Len(task[r].trace) = 1
    /\ task[r].response.status = "200"
    /\ task[r].results[1].result = MsgNoRoster

----------------------------------------------------------------------------
(* C21 *)

\* body b is a notification that is no tool call: a Vapi message of another
\* type, a Retell event other than tool_call_invocation
NonToolEvent(b) ==
  \/ b.integ = "vapi" /\ b.hasMessage /\ b.type # "tool-calls"
  \/ b.integ = "retell" /\ b.event \notin {"", "tool_call_invocation"}
  \/ b.integ = "retell2" /\ b.name = "" /\ b.event # ""

\* C21: call-lifecycle notifications (call started, call ended, end-of-call
\* report) and any other non-tool event are answered at once with the
\* { received: true } acknowledgement and make no store call.
C21_EventsAcknowledged ==
  \A r \in Slots :
    NonToolEvent(inbox[r]) =>
      /\ task[r].pc = "done"
      /\ task[r].response
           = [status |-> "200", kind |-> "received", tool_call_id |-> "",
              content |-> <<>>, results |-> <<>>]
      /\ task[r].trace = <<>>
      /\ task[r].results = <<>>

\* C21 witness: an event routes.js has no handler for, acknowledged without
\* a store call
C21_Witness ==
  \E r \in Slots :
    /\ inbox[r].integ = "retell"
    /\ inbox[r].event = "call_analyzed"
    /\ task[r].response = Ack
    /\ task[r].trace = <<>>

----------------------------------------------------------------------------
(* C22 *)

\* the appointments created so far, each with the request and the position
\* of the store call that created it
Creations ==
  {<<r, k>> \in Slots \X (1..(2 * MaxBatch)) :
     /\ k <= Len(task[r].trace)
     /\ task[r].trace[k].op = "create"
     /\ task[r].trace[k].ok}

RowOf(c) == task[c[1]].trace[c[2]].value[1]

\* C22: when bookings do not interleave, no two non-cancelled appointments
\* created by book_appointment for the same date and time have doctor
\* strings of which one contains the other, letter case ignored.
C22_NoOverlappingDoctors ==
  \A c1, c2 \in Creations :
    ( /\ c1 # c2
      /\ RowOf(c1).Date = RowOf(c2).Date
      /\ RowOf(c1).Time = RowOf(c2).Time
      /\ RowOf(c1).Status # Cancelled /\ RowOf(c2).Status # Cancelled )
    => /\ ~ContainsCI(RowOf(c1).Doctor, RowOf(c2).Doctor)
       /\ ~ContainsCI(RowOf(c2).Doctor, RowOf(c1).Doctor)

----------------------------------------------------------------------------
(* C23 *)

\* C23: after a booking with doctor string X on date D at slot label T was
\* confirmed, every later check_availability for D leaves T out of the free
\* slots of every roster doctor it reports on whose name contains X, letter
\* case ignored.  (Requests take the slots in order and do not interleave:
\* a request in a higher slot is a later one.)
C23_BookedSlotOmitted ==
  \A r1, r2 \in Slots :
    ( /\ r1 < r2
      /\ ConfirmedCall(r1, 1)
      /\ ArgsOf(r1, 1).time \in Range(allTimeSlots)
      /\ Computed(r2)
      /\ ArgsOf(r2, 1).date = ArgsOf(r1, 1).date )
    => \A i \in 1..Len(task[r2].availabilityData) :
         ContainsCI(task[r2].availabilityData[i].doctor, ArgsOf(r1, 1).doctor)
           => ~arrayIncludes(task[r2].availabilityData[i].freeSlots, ArgsOf(r1, 1).time)

----------------------------------------------------------------------------
(* C24 *)

\* the availability check of request r1 reported slot label T free for the
\* roster doctor named N
ReportedFree(r1, N, T) ==
  /\ Computed(r1)
  /\ \E k \in 1..Len(roster) : roster[k].Name = N
  /\ \E i \in 1..Len(task[r1].availabilityData) :
       /\ task[r1].availabilityData[i].doctor = N
       /\ arrayIncludes(task[r1].availabilityData[i].freeSlots, T)

\* request r2 is a booking whose guard read succeeded and returned the
\* appointments the availability check of request r1 had read
SameStoreState(r1, r2) ==
  /\ Computed(r1)
  /\ inbox[r2].integ # "none"
  /\ CurrentCall(inbox[r2], 1).name = "book_appointment"
  /\ task[r2].trace # <<>>
  /\ task[r2].trace[1].op = "checkAppointments"
  /\ task[r2].trace[1].ok
  /\ task[r2].trace[1].value = task[r1].trace[2].value

\* the booking of request r2 passed the conflict guard: it went on to the
\* create
PassedGuard(r2) ==
  \/ task[r2].pc = "create" /\ Len(task[r2].trace) = 1
  \/ Len(task[r2].trace) = 2 /\ task[r2].trace[2].op = "create"

\* C24: if check_availability reported slot T free for roster doctor N on
\* date D, a book_appointment for N's full roster name, D and T whose guard
\* reads the same appointments passes the conflict guard.
C24_FreeMeansBookable ==
  \A r1, r2 \in Slots :
    ( /\ ReportedFree(r1, ArgsOf(r2, 1).doctor, ArgsOf(r2, 1).time)
      /\ ArgsOf(r2, 1).date = ArgsOf(r1, 1).date
      /\ SameStoreState(r1, r2) )
    => PassedGuard(r2)

\* C24 witness: an availability check that read a non-empty appointment
\* list and reported 10:00 AM free for a roster doctor, followed by a booking
\* of that doctor at 10:00 AM that read the same list and was confirmed
C24_Witness ==
  \E r1, r2 \in Slots :
    /\ ReportedFree(r1, ArgsOf(r2, 1).doctor, T10)
    /\ ArgsOf(r2, 1).time = T10
    /\ ArgsOf(r2, 1).date = ArgsOf(r1, 1).date
    /\ SameStoreState(r1, r2)
    /\ task[r1].trace[2].value # <<>>
    /\ ConfirmedCall(r2, 1)

----------------------------------------------------------------------------
(* C25 *)

\* the availability check of request r1 reported on the roster doctor named
\* N and left slot label T out of N's free slots
ReportedTaken(r1, N, T) ==
  /\ Computed(r1)
  /\ T \in Range(allTimeSlots)
  /\ \E k \in 1..Len(roster) : roster[k].Name = N
  /\ \E i \in 1..Len(task[r1].availabilityData) :
       /\ task[r1].availabilityData[i].doctor = N
       /\ ~arrayIncludes(task[r1].availabilityData[i].freeSlots, T)

\* the booking of request r2 was rejected by the conflict guard
RejectedByGuard(r2) ==
  /\ Len(task[r2].trace) = 1
  /\ Len(task[r2].results) = 1
  /\ Head(task[r2].results[1].result) = "I'm sorry, the "

\* C25: check_availability and the booking guard agree on which slots are
\* taken: against the same appointments, slot label T is absent from roster
\* doctor N's free slots exactly when a book_appointment for N's full name,
\* the date and T is rejected as slot taken; cancelled appointments included.
C25_CheckAgreesWithGuard ==
  \A r1, r2 \in Slots :
    ( /\ ArgsOf(r2, 1).date = ArgsOf(r1, 1).date
      /\ SameStoreState(r1, r2) )
    => /\ ReportedFree(r1, ArgsOf(r2, 1).doctor, ArgsOf(r2, 1).time) => PassedGuard(r2)
       /\ ReportedTaken(r1, ArgsOf(r2, 1).doctor, ArgsOf(r2, 1).time) => RejectedByGuard(r2)

----------------------------------------------------------------------------
(* C26 *)

\* C26: book_appointment creates an appointment only for a doctor of the
\* roster: the doctor string of every created row occurs, letter case
\* ignored, in the name of a roster doctor.
C26_DoctorInRoster ==
  \A r \in Slots : \A x \in CreatedBy(r) :
    \E k \in 1..Len(roster) : ContainsCI(roster[k].Name, x.Doctor)

----------------------------------------------------------------------------
(* C27 *)

\* the store calls of request r come in the order of its tool calls, and a
\* tool call is started only when the ones before it have their results
InListOrder(r) ==
  /\ \A j, k \in 1..Len(task[r].trace) :
       j < k => task[r].trace[j].idx <= task[r].trace[k].idx
  /\ \A i \in CallIndexes(r) :
       (AwaitingStore(r, i) \/ CallsFor(task[r], i) # <<>>)
         => Len(task[r].results) >= i - 1
  /\ \A i \in CallIndexes(r) :
       AwaitingStore(r, i) =>
         /\ Len(task[r].results) = i - 1
         /\ \A k \in 1..Len(task[r].trace) : task[r].trace[k].idx <= i

\* tool call i of request r is a booking whose guard read succeeded
GuardReadOk(r, i) ==
  /\ CurrentCall(inbox[r], i).name = "book_appointment"
  /\ CallsFor(task[r], i) # <<>>
  /\ CallsFor(task[r], i)[1].ok

\* C27: within one batch the tool calls are handled strictly in list order,
\* each one's store calls completing before the next one starts; so when a
\* batch holds two book_appointment calls for the same doctor, date and time
\* and the earlier one is confirmed, the later one, once its guard read has
\* returned, is rejected as slot taken and creates nothing.
C27_BatchInOrder ==
  \A r \in Slots :
    inbox[r].integ = "vapi" =>
      /\ InListOrder(r)
      /\ \A i, j \in 1..Len(task[r].results) :
           ( /\ i < j
             /\ ConfirmedCall(r, i)
             /\ GuardReadOk(r, j)
             /\ ArgsOf(r, j).doctor = ArgsOf(r, i).doctor
             /\ ArgsOf(r, j).date = ArgsOf(r, i).date
             /\ ArgsOf(r, j).time = ArgsOf(r, i).time )
           => /\ Len(CallsFor(task[r], j)) = 1
              /\ task[r].results[j].result
                   = <<"I'm sorry, the ">> \o ArgsOf(r, j).time \o <<" slot with ">>
                       \o ArgsOf(r, j).doctor \o <<" on ">> \o ArgsOf(r, j).date
                       \o <<" was just taken. Would you like to choose a different time?">>

\* C27 witness: a batch of two bookings of the same slot, answered with a
\* confirmation and then a slot-taken result, one row created
C27_Witness ==
  \E r \in Slots :
    /\ task[r].pc = "done"
    /\ inbox[r].integ = "vapi"
    /\ Len(task[r].response.results) = 2
    /\ ArgsOf(r, 1) = ArgsOf(r, 2)
    /\ ConfirmedCall(r, 1)
    /\ Head(task[r].response.results[2].result) = "I'm sorry, the "
    /\ Cardinality(CreatedBy(r)) = 1
    /\ Len(task[r].trace) = 3

----------------------------------------------------------------------------
(* C28 *)

\* a store call of tool call i of request r has failed
StoreFailed(r, i) == \E k \in 1..Len(Outcomes(r, i)) : ~Outcomes(r, i)[k][3]

\* every entry of the batch of request r has its function descriptor
AllWellFormed(r) ==
  \A k \in 1..Len(inbox[r].toolCallList) : inbox[r].toolCallList[k].hasFunction

\* C28: in a batch whose entries all have their function descriptor, a
\* failure while handling one tool call touches that call's result only: the
\* batch is handled to its end, the response has a result per entry, a call
\* whose arguments are not valid JSON gets the missing-argument prompt of its
\* tool, and a call gets the apology exactly when one of its own store calls
\* failed.
C28_FailureIsolated ==
  \A r \in Slots :
    (inbox[r].integ = "vapi" /\ HasEnvelope(inbox[r]) /\ AllWellFormed(r)) =>
      /\ task[r].pc # "rejected"
      /\ task[r].pc = "done" =>
           /\ task[r].response.status = "200"
           /\ task[r].response.results = task[r].results
           /\ Len(task[r].results) = Len(inbox[r].toolCallList)
      /\ \A i \in 1..Len(task[r].results) :
           /\ (task[r].results[i].result
                 = <<"I apologize, there was a technical issue. Let me transfer you to our staff.">>)
                <=> StoreFailed(r, i)
           /\ inbox[r].toolCallList[i].json = "invalid" =>
                /\ task[r].results[i].result = PromptFor(CurrentCall(inbox[r], i))
                /\ CallsFor(task[r], i) = <<>>
           /\ Head(task[r].results[i].result) \in OpeningsOf(inbox[r].toolCallList[i].name)

\* C28 witness: a batch whose first tool call met a store failure and got
\* the apology, and whose second, a booking, was confirmed
C28_Witness ==
  \E r \in Slots :
    /\ task[r].pc = "done"
    /\ inbox[r].integ = "vapi"
    /\ Len(task[r].response.results) = 2
    /\ StoreFailed(r, 1)
    /\ task[r].response.results[1].result = MsgApology
    /\ ConfirmedCall(r, 2)

----------------------------------------------------------------------------
(* C29 *)

\* request r1 of a single-call webhook and request r2 of the batch webhook,
\* a batch of one entry, carry the same tool name and arguments and are both
\* answered
SameInvocation(r1, r2) ==
  /\ inbox[r1].integ \in {"retell", "retell2"} /\ HasEnvelope(inbox[r1])
  /\ inbox[r2].integ = "vapi" /\ HasEnvelope(inbox[r2])
  /\ Len(inbox[r2].toolCallList) = 1
  /\ CurrentCall(inbox[r1], 1).name = CurrentCall(inbox[r2], 1).name
  /\ ArgsOf(r1, 1) = ArgsOf(r2, 1)
  /\ task[r1].pc = "done" /\ task[r2].pc = "done"

\* the store answered the k-th store call of both requests alike, for every
\* k both have reached
SameAnswers(r1, r2) ==
  \A k \in 1..Len(task[r1].trace) :
    k <= Len(task[r2].trace) =>
      /\ task[r1].trace[k].ok = task[r2].trace[k].ok
      /\ task[r1].trace[k].value = task[r2].trace[k].value

\* C29: for the same tool name, arguments and store answers, the single-call
\* webhook and the batch webhook issue the same store reads and writes in the
\* same order and return the same spoken string.
C29_SameAcrossProviders ==
  \A r1, r2 \in Slots :
    (SameInvocation(r1, r2) /\ SameAnswers(r1, r2)) =>
      /\ Outcomes(r1, 1) = Outcomes(r2, 1)
      /\ task[r1].response.content = task[r2].response.results[1].result

----------------------------------------------------------------------------
(* C30 *)

\* request r has arrived
Arrived(r) == inbox[r].integ # "none"

\* request r has been sent a response
Responded(r) == task[r].response.status # "none"

\* C30: provided every store call eventually returns or fails, every request
\* that has arrived is eventually sent a response, a response once sent is
\* never followed by another, and a request that awaits a store call can take
\* its next step whatever the other requests are doing.
C30_AnsweredOnce ==
  /\ \A r \in Slots : Arrived(r) ~> Responded(r)
  /\ [][\A r \in Slots : Responded(r) => task'[r] = task[r]]_vars
  /\ [](\A r \in Slots : AwaitingStore(r, task[r].idx) => ENABLED StoreReturns(r))

====
